---- MODULE Spec2Model ----
(***************************************************************************)
(* Customer service of backend/app.py: one SQLite table `customer` and the *)
(* Flask handlers list / create / update / delete / stats / health.        *)
(*                                                                         *)
(* app.run serves every request in a thread of its own, with a session and *)
(* a connection of its own, and the sqlite3 driver opens no transaction    *)
(* for a SELECT.  A handler is therefore a sequence of steps, one for each *)
(* statement it sends to the store; each step reads or writes the          *)
(* committed table, and the steps of different threads interleave.         *)
(*                                                                         *)
(* A column or JSON value is an option: {} is None / NULL / JSON null and  *)
(* {v} is the value v.  A JSON object is a function whose DOMAIN is the    *)
(* set of keys the client supplied.  An integer of Python or SQLite is the *)
(* record [hi, lo] for hi * 2^62 + lo, where lo is small; total_spent, a   *)
(* Float column, is kept as a whole number of hundredths.                  *)
(***************************************************************************)
EXTENDS Integers, Sequences, FiniteSets, TLC

VARIABLES customers,   \* rows of table customer (the committed store)
          pc,          \* per thread: the statement its handler is at; for
                       \* the main thread, the statement of __main__
          request,     \* per thread: the request it serves
          session,     \* per thread: the locals and the session of its handler
          response,    \* per thread: what the handler returned: [status, body]
          reads,       \* per thread: the table as each of its SELECTs saw it
          write        \* per thread: the table before and after its commit

vars == <<customers, pc, request, session, response, reads, write>>

\* bound: requests served at the same time, one thread each
MaxThreads == 2

\* bound: rows of the table the requests arrive at
MaxRows == 2

\* bound: the readings of the clock are 0..MaxReading
MaxReading == 1

Threads == 1..MaxThreads

\* the thread that runs __main__ and then app.run
MainThread == 0

NULL == {}

Some(v) == {v}

Val(o) == CHOOSE v \in o : TRUE

----------------------------------------------------------------------------
(* Integers                                                                 *)

\* the integer hi * 2^62 + lo
Wide(hi, lo) == [hi |-> hi, lo |-> lo]

Small(n) == Wide(0, n)

\* a + b
Add(a, b) == Wide(a.hi + b.hi, a.lo + b.lo)

\* a > 0
Positive(a) == a.hi > 0 \/ (a.hi = 0 /\ a.lo > 0)

\* -2^63 <= a <= 2^63 - 1: a is an INTEGER of SQLite
FitsInt64(a) ==
    \/ (a.hi >= 0 - 1 /\ a.hi <= 1)
    \/ (a.hi = 2 /\ a.lo < 0)
    \/ (a.hi = 0 - 2 /\ a.lo >= 0)

----------------------------------------------------------------------------
(* JSON payloads                                                            *)

\* request.get_json() gave a dict
IsDict(req) == req.json = "object"

\* type(request.get_json()).__name__
TypeName(req) == IF req.json = "null" THEN "NoneType" ELSE "list"

\* dict.get(key, default)
Get(data, key, default) == IF key \in DOMAIN data THEN data[key] ELSE default

\* truthiness of a str-or-None value: None and '' are falsy
Truthy(v) == v # NULL /\ v # Some("")

----------------------------------------------------------------------------
(* The table and the session                                                *)

\* class Customer: one row; id and join_date are filled in by the INSERT
Customer(id, name, email, status, total_orders, total_spent, join_date) ==
    [id |-> id, name |-> name, email |-> email, status |-> status,
     total_orders |-> total_orders, total_spent |-> total_spent,
     join_date |-> join_date]

\* the values datetime.utcnow can return: the wall clock, which need not go
\* forward between two calls
Readings == 0..MaxReading

\* datetime.isoformat
isoformat(t) == ToString(t)

\* Customer.to_dict
to_dict(c) ==
    [id |-> c.id, name |-> c.name, email |-> c.email, status |-> c.status,
     totalOrders |-> c.total_orders, totalSpent |-> c.total_spent,
     joinDate |-> isoformat(c.join_date)]

\* a column default applies when the attribute was never set or set to None
ColumnDefault(v, default) == IF v = NULL THEN Some(default) ELSE v

Max(S) == CHOOSE m \in S : \A x \in S : x <= m

Min(S) == CHOOSE m \in S : \A x \in S : m <= x

\* INTEGER PRIMARY KEY of SQLite: the largest rowid in the table plus one
NextRowId(table) == IF table = {} THEN 1 ELSE Max({r.id : r \in table}) + 1

\* Customer.query.get(id), and the SELECT that reloads an expired instance
QueryGet(table, id) == {r \in table : r.id = id}

\* the filter compares the wrong column
FilterByName(table, email) == {r \in table : r.name = email}

\* Customer.query.filter_by(email=...).first(): the rows, empty when None
FilterByEmail(table, email) == {r \in table : r.email = email}

\* an exception: its class and the message str() shows.  For an error of
\* the driver, str() shows the message after the driver's class and goes on
\* with the statement and its parameters, which are not kept here.
Exception(class, message) == [exception |-> class, message |-> message]

NoException == Exception("", "")

IntegrityError(message) == Exception("sqlite3.IntegrityError", message)

\* the table without unique=True on email
ConstraintErrorWithoutUnique(pending) ==
    IF \E r \in pending : r.name = NULL
      THEN IntegrityError("NOT NULL constraint failed: customer.name")
    ELSE IF \E r \in pending : r.email = NULL
      THEN IntegrityError("NOT NULL constraint failed: customer.email")
    ELSE IF \E r, s \in pending : r # s /\ r.id = s.id
      THEN IntegrityError("UNIQUE constraint failed: customer.id")
    ELSE NoException

\* the constraints of the table, checked by the store when a flush writes
\* `pending`: nullable=False on name and email, the primary key, and
\* unique=True on email
ConstraintError(pending) ==
    IF \E r \in pending : r.name = NULL
      THEN IntegrityError("NOT NULL constraint failed: customer.name")
    ELSE IF \E r \in pending : r.email = NULL
      THEN IntegrityError("NOT NULL constraint failed: customer.email")
    ELSE IF \E r, s \in pending : r # s /\ r.id = s.id
      THEN IntegrityError("UNIQUE constraint failed: customer.id")
    ELSE IF \E r, s \in pending : r # s /\ r.email = s.email
      THEN IntegrityError("UNIQUE constraint failed: customer.email")
    ELSE NoException

\* binding the parameters of a statement: an int outside 64 bits is refused
BindError(row) ==
    IF row.total_orders # NULL /\ ~FitsInt64(Val(row.total_orders))
      THEN Exception("OverflowError",
                     "Python int too large to convert to SQLite INTEGER")
      ELSE NoException

\* db.session.commit(): the pending rows become the table, or the store
\* rejects them and commit raises
Commit(table, pending) ==
    IF ConstraintError(pending) = NoException
      THEN [raised |-> FALSE, table |-> pending]
      ELSE [raised |-> TRUE, error |-> ConstraintError(pending)]

\* db.session.rollback(): the transaction's writes are dropped
Rollback(table, pending) == table

\* jsonify(body), status
Response(status, body) == [status |-> status, body |-> body]

\* except Exception as e: ...; jsonify({'error': str(e)}), 500
ExceptionResponse(e) == Response(500, [error |-> e])

\* the werkzeug NotFound that get_or_404 raises
NotFound ==
    Exception("NotFound",
      "404 Not Found: The requested URL was not found on the server. If you entered the URL manually please check your spelling and try again.")

\* data.get on a payload that is not a dict
AttributeError(req) ==
    Exception("AttributeError",
              "'" \o TypeName(req) \o "' object has no attribute 'get'")

\* the UPDATE of a flush matched no row
StaleDataError ==
    Exception("StaleDataError",
      "UPDATE statement on table 'customer' expected to update 1 row(s); 0 were matched.")

\* the SELECT that reloads an expired instance found no row
ObjectDeletedError ==
    Exception("ObjectDeletedError",
      "Instance '<Customer>' has been deleted, or its row is otherwise not present.")

\* sum() of SQLite went beyond 64 bits
OperationalError == Exception("sqlite3.OperationalError", "integer overflow")

RECURSIVE RowsInOrder(_)
\* Customer.query.all(): the rows in rowid order
RowsInOrder(table) ==
    IF table = {} THEN <<>>
    ELSE LET first == CHOOSE r \in table : r.id = Min({s.id : s \in table})
         IN  <<first>> \o RowsInOrder(table \ {first})

\* [customer.to_dict() for customer in customers]
ToDicts(rows) == [i \in 1..Len(rows) |-> to_dict(rows[i])]

RECURSIVE SqlSum(_, _)
\* db.func.sum(Customer.total_spent): the sum of the non-NULL values, NULL
\* when there is none
SqlSum(table, column) ==
    LET rows == {r \in table : r[column] # NULL}
    IN  IF rows = {} THEN NULL
        ELSE LET r == CHOOSE r \in rows : TRUE
                 rest == SqlSum(rows \ {r}, column)
             IN  Some(Val(r[column]) + (IF rest = NULL THEN 0 ELSE Val(rest)))

RECURSIVE SqlSumInt(_, _, _)
\* db.func.sum(Customer.total_orders): the rows are added in rowid order in
\* a 64-bit integer; once an addition overflows the query fails
SqlSumInt(rows, i, acc) ==
    IF i > Len(rows) THEN acc
    ELSE IF rows[i].total_orders = NULL THEN SqlSumInt(rows, i + 1, acc)
    ELSE LET sum == Add(IF acc.value = NULL THEN Small(0) ELSE Val(acc.value),
                        Val(rows[i].total_orders))
         IN  IF acc.overflow \/ ~FitsInt64(sum)
               THEN [overflow |-> TRUE, value |-> NULL]
               ELSE SqlSumInt(rows, i + 1, [overflow |-> FALSE, value |-> Some(sum)])

\* `x or 0` on a float-or-None
OrZero(x) == IF x = NULL \/ x = Some(0) THEN 0 ELSE Val(x)

\* `x or 0` on an int-or-None
OrZeroInt(x) == IF x = NULL THEN Small(0) ELSE Val(x)

\* a / b of Python on numbers, kept exact as the fraction num/den
TrueDiv(a, b) == [num |-> a, den |-> b]

\* every column is written, changed or not
AllColumns(old, assigned) == {"name", "email", "status", "total_orders", "total_spent"}

\* the SET clause of the UPDATE a flush emits: the attributes whose value
\* is not the one that was loaded
ChangedColumns(old, assigned) ==
    {c \in {"name", "email", "status", "total_orders", "total_spent"} :
        assigned[c] # old[c]}

\* UPDATE customer SET columns WHERE id = row.id
ApplyColumns(row, assigned, columns) ==
    [c \in DOMAIN row |-> IF c \in columns THEN assigned[c] ELSE row[c]]

----------------------------------------------------------------------------
(* The handlers: one action for each statement a handler sends to the      *)
(* store, together with the code that runs up to the next statement        *)

NoRequest == [op |-> "none", id |-> 0, json |-> "object", data |-> <<>>]

NoSession == [customer |-> {}, stats |-> <<>>]

NoResponse == Response(0, "")

NoWrite == [ran |-> FALSE, raised |-> FALSE, pre |-> {}, post |-> {}]

\* thread t takes the request and its first statement reads the table
Serve(t, req) ==
    /\ pc[MainThread] = "run"
    /\ pc[t] = "idle"
    /\ request' = [request EXCEPT ![t] = req]
    /\ reads' = [reads EXCEPT ![t] = <<customers>>]

\* thread t reads the table again
Reads(t) == reads' = [reads EXCEPT ![t] = Append(@, customers)]

\* the handler of thread t goes on to the statement at `label`
Goto(t, label) ==
    /\ pc' = [pc EXCEPT ![t] = label]
    /\ UNCHANGED response

\* the handler of thread t returns
Return(t, resp) ==
    /\ pc' = [pc EXCEPT ![t] = "done"]
    /\ response' = [response EXCEPT ![t] = resp]

\* the flush and COMMIT of thread t took the table from `pre` to `post`
Wrote(t, raised, pre, post) ==
    write' = [write EXCEPT ![t] =
                 [ran |-> TRUE, raised |-> raised, pre |-> pre, post |-> post]]

\* GET /api/customers
get_customers(t) ==
    /\ Serve(t, [op |-> "list", id |-> 0, json |-> "object", data |-> <<>>])
    /\ Return(t, Response(200, ToDicts(RowsInOrder(customers))))
    /\ UNCHANGED <<customers, session, write>>

\* POST /api/customers, up to the SELECT that looks for the email
create_customer(t, req) ==
    LET data  == req.data
        name  == Get(data, "name", NULL)
        email == Get(data, "email", NULL)
        customer == [name |-> name, email |-> email,
                     status |-> Get(data, "status", Some("active")),
                     total_orders |-> Get(data, "totalOrders", Some(Small(0))),
                     total_spent |-> Get(data, "totalSpent", Some(0))]
    IN  /\ Serve(t, req)
        /\ UNCHANGED <<customers, write>>
        /\ IF ~IsDict(req)
             THEN /\ Return(t, ExceptionResponse(AttributeError(req)))
                  /\ UNCHANGED session
           ELSE IF ~Truthy(name) \/ ~Truthy(email)
             THEN /\ Return(t, Response(400, [error |-> "Name and email are required"]))
                  /\ UNCHANGED session
           ELSE IF FilterByEmail(customers, email) # {}
             THEN /\ Return(t, Response(400, [error |-> "Email already exists"]))
                  /\ UNCHANGED session
           ELSE /\ Goto(t, "create_commit")
                /\ session' = [session EXCEPT ![t].customer = {customer}]

\* POST /api/customers: db.session.add(customer); db.session.commit()
\* join_date is what datetime.utcnow returned when the flush called it
create_commit(t, join_date) ==
    LET new == Val(session[t].customer)
        customer == Customer(NextRowId(customers), new.name, new.email,
                             ColumnDefault(new.status, "active"),
                             ColumnDefault(new.total_orders, Small(0)),
                             ColumnDefault(new.total_spent, 0),
                             join_date)
        pending == customers \cup {customer}
        result == Commit(customers, pending)
    IN  /\ pc[t] = "create_commit"
        /\ UNCHANGED <<request, reads>>
        /\ IF BindError(customer) # NoException
             THEN /\ customers' = Rollback(customers, customers)
                  /\ Return(t, ExceptionResponse(BindError(customer)))
                  /\ UNCHANGED session
           ELSE IF result.raised
             THEN /\ customers' = Rollback(customers, pending)
                  /\ Return(t, ExceptionResponse(result.error))
                  /\ UNCHANGED session
           ELSE /\ customers' = result.table
                /\ session' = [session EXCEPT ![t].customer = {customer}]
                /\ Goto(t, "create_respond")
        /\ Wrote(t, pc'[t] = "done", customers, customers')

\* POST /api/customers: customer.to_dict() reloads the instance, which the
\* commit expired
create_respond(t) ==
    LET found == QueryGet(customers, Val(session[t].customer).id)
    IN  /\ pc[t] = "create_respond"
        /\ Reads(t)
        /\ UNCHANGED <<request, session, write>>
        /\ IF found = {}
             THEN /\ customers' = Rollback(customers, customers)
                  /\ Return(t, ExceptionResponse(ObjectDeletedError))
             ELSE /\ UNCHANGED customers
                  /\ Return(t, Response(201, to_dict(Val(found))))

\* PUT /api/customers/<int:customer_id>, up to the SELECT of get_or_404 and
\* request.get_json()
update_customer(t, req) ==
    LET found == QueryGet(customers, req.id)
    IN  /\ Serve(t, req)
        /\ UNCHANGED <<write>>
        /\ IF found = {}
             \* get_or_404 raises NotFound inside the try block
             THEN /\ customers' = Rollback(customers, customers)
                  /\ Return(t, ExceptionResponse(NotFound))
                  /\ UNCHANGED session
           ELSE IF ~IsDict(req)
             THEN /\ customers' = Rollback(customers, customers)
                  /\ Return(t, ExceptionResponse(AttributeError(req)))
                  /\ UNCHANGED session
           ELSE /\ UNCHANGED customers
                /\ Goto(t, "update_commit")
                /\ session' = [session EXCEPT ![t].customer = found]

\* PUT /api/customers/<int:customer_id>: the assignments and
\* db.session.commit()
update_commit(t) ==
    LET data == request[t].data
        old == Val(session[t].customer)
        assigned == [old EXCEPT
                        !.name = Get(data, "name", old.name),
                        !.email = Get(data, "email", old.email),
                        !.status = Get(data, "status", old.status),
                        !.total_orders = Get(data, "totalOrders", old.total_orders),
                        !.total_spent = Get(data, "totalSpent", old.total_spent)]
        columns == ChangedColumns(old, assigned)
        matched == QueryGet(customers, old.id)
        customer == ApplyColumns(Val(matched), assigned, columns)
        pending == (customers \ matched) \cup {customer}
        result == Commit(customers, pending)
    IN  /\ pc[t] = "update_commit"
        /\ UNCHANGED <<request, reads, session>>
        /\ IF columns = {}
             \* nothing to flush
             THEN /\ UNCHANGED customers
                  /\ Goto(t, "update_respond")
           ELSE IF BindError(assigned) # NoException
             THEN /\ customers' = Rollback(customers, customers)
                  /\ Return(t, ExceptionResponse(BindError(assigned)))
           ELSE IF matched = {}
             THEN /\ customers' = Rollback(customers, customers)
                  /\ Return(t, ExceptionResponse(StaleDataError))
           ELSE IF result.raised
             THEN /\ customers' = Rollback(customers, pending)
                  /\ Return(t, ExceptionResponse(result.error))
           ELSE /\ customers' = result.table
                /\ Goto(t, "update_respond")
        /\ Wrote(t, pc'[t] = "done", customers, customers')

\* PUT /api/customers/<int:customer_id>: customer.to_dict() reloads the
\* instance, which the commit expired
update_respond(t) ==
    LET found == QueryGet(customers, Val(session[t].customer).id)
    IN  /\ pc[t] = "update_respond"
        /\ Reads(t)
        /\ UNCHANGED <<request, session, write>>
        /\ IF found = {}
             THEN /\ customers' = Rollback(customers, customers)
                  /\ Return(t, ExceptionResponse(ObjectDeletedError))
             ELSE /\ UNCHANGED customers
                  /\ Return(t, Response(200, to_dict(Val(found))))

\* DELETE /api/customers/<int:customer_id>, up to the SELECT of get_or_404
delete_customer(t, req) ==
    LET found == QueryGet(customers, req.id)
    IN  /\ Serve(t, req)
        /\ UNCHANGED <<write>>
        /\ IF found = {}
             \* get_or_404 raises NotFound inside the try block
             THEN /\ customers' = Rollback(customers, customers)
                  /\ Return(t, ExceptionResponse(NotFound))
                  /\ UNCHANGED session
             ELSE /\ UNCHANGED customers
                  /\ Goto(t, "delete_commit")
                  /\ session' = [session EXCEPT ![t].customer = found]

\* DELETE /api/customers/<int:customer_id>: db.session.delete(customer);
\* db.session.commit().  A DELETE that matches no row only warns.
delete_commit(t) ==
    LET old == Val(session[t].customer)
        pending == customers \ QueryGet(customers, old.id)
        result == Commit(customers, pending)
    IN  /\ pc[t] = "delete_commit"
        /\ UNCHANGED <<request, reads, session>>
        /\ IF result.raised
             THEN /\ customers' = Rollback(customers, pending)
                  /\ Return(t, ExceptionResponse(result.error))
             ELSE /\ customers' = result.table
                  /\ Return(t, Response(204, ""))
        /\ Wrote(t, result.raised, customers, customers')

\* GET /api/stats: Customer.query.count()
get_stats(t) ==
    /\ Serve(t, [op |-> "stats", id |-> 0, json |-> "object", data |-> <<>>])
    /\ session' = [session EXCEPT ![t].stats = <<Cardinality(customers)>>]
    /\ Goto(t, "stats_active")
    /\ UNCHANGED <<customers, write>>

\* GET /api/stats: Customer.query.filter_by(status='active').count()
stats_active(t) ==
    LET active_customers ==
            Cardinality({r \in customers : r.status = Some("active")})
    IN  /\ pc[t] = "stats_active"
        /\ Reads(t)
        /\ session' = [session EXCEPT ![t].stats = Append(@, active_customers)]
        /\ Goto(t, "stats_revenue")
        /\ UNCHANGED <<customers, request, write>>

\* GET /api/stats: the sum of total_spent, `or 0`
stats_revenue(t) ==
    LET total_revenue == OrZero(SqlSum(customers, "total_spent"))
    IN  /\ pc[t] = "stats_revenue"
        /\ Reads(t)
        /\ session' = [session EXCEPT ![t].stats = Append(@, total_revenue)]
        /\ Goto(t, "stats_orders")
        /\ UNCHANGED <<customers, request, write>>

\* GET /api/stats: the sum of total_orders, `or 0`, the average and the
\* response
stats_orders(t) ==
    LET sum == SqlSumInt(RowsInOrder(customers), 1,
                         [overflow |-> FALSE, value |-> NULL])
        total_customers  == session[t].stats[1]
        active_customers == session[t].stats[2]
        total_revenue    == session[t].stats[3]
        total_orders     == OrZeroInt(sum.value)
        avg_order_value  == IF Positive(total_orders)
                              THEN TrueDiv(total_revenue, total_orders)
                              ELSE TrueDiv(0, Small(1))
    IN  /\ pc[t] = "stats_orders"
        /\ Reads(t)
        /\ UNCHANGED <<customers, request, session, write>>
        /\ IF sum.overflow
             THEN Return(t, ExceptionResponse(OperationalError))
             ELSE Return(t, Response(200,
                     [totalCustomers |-> total_customers,
                      activeCustomers |-> active_customers,
                      totalRevenue |-> total_revenue,
                      avgOrderValue |-> avg_order_value]))

\* GET /api/health
health_check(t) ==
    /\ Serve(t, [op |-> "health", id |-> 0, json |-> "object", data |-> <<>>])
    /\ Return(t, Response(200, [status |-> "healthy", message |-> "API is running"]))
    /\ UNCHANGED <<customers, session, write>>

\* the sample rows of __main__; total_spent in hundredths
SampleCustomers ==
    << [name |-> "John Doe", email |-> "john@example.com", status |-> "active",
        total_orders |-> 15, total_spent |-> 285050],
       [name |-> "Jane Smith", email |-> "jane@example.com", status |-> "active",
        total_orders |-> 8, total_spent |-> 125000],
       [name |-> "Bob Johnson", email |-> "bob@example.com", status |-> "inactive",
        total_orders |-> 3, total_spent |-> 45075],
       [name |-> "Alice Brown", email |-> "alice@example.com", status |-> "active",
        total_orders |-> 22, total_spent |-> 420025],
       [name |-> "Charlie Wilson", email |-> "charlie@example.com",
        status |-> "pending", total_orders |-> 0, total_spent |-> 0] >>

\* __main__: the script starts; an empty table is given the sample rows,
\* and app.run begins to serve.  The default of join_date is called for
\* each row.
main ==
    /\ pc[MainThread] = "main"
    /\ pc' = [pc EXCEPT ![MainThread] = "run"]
    /\ UNCHANGED <<request, session, response, reads, write>>
    /\ IF Cardinality(customers) = 0
         THEN \E utcnow \in [1..Len(SampleCustomers) -> Readings] :
                LET pending ==
                      { Customer(i, Some(SampleCustomers[i].name),
                                 Some(SampleCustomers[i].email),
                                 Some(SampleCustomers[i].status),
                                 Some(Small(SampleCustomers[i].total_orders)),
                                 Some(SampleCustomers[i].total_spent),
                                 utcnow[i]) :
                          i \in 1..Len(SampleCustomers) }
                IN  customers' = Commit(customers, pending).table
         ELSE UNCHANGED customers

----------------------------------------------------------------------------
(* Specification Spec: the script is started on a database that earlier    *)
(* runs left some of the rows 1..MaxRows in, and every thread serves one   *)
(* request                                                                 *)

EmailBook == <<"a", "b", "c", "d", "e", "f">>

\* row id of the tables the requests arrive at: an odd row is active with
\* 2 orders, an even row is pending with 2^62 orders
GivenRow(id) ==
    Customer(id, Some("n"), Some(EmailBook[id]),
             IF id % 2 = 1 THEN Some("active") ELSE Some("pending"),
             IF id % 2 = 1 THEN Some(Small(2)) ELSE Some(Wide(1, 0)),
             Some(id + 2), 0 - id)

GivenTable(ids) == {GivenRow(id) : id \in ids}

Object(data) == [json |-> "object", data |-> data]

\* the bodies of the POST requests
CreateBodies ==
    { Object([name |-> Some("n"), email |-> Some("a")]),
      Object([email |-> Some("a")]),
      Object([name |-> Some("n"), email |-> Some("z"),
              totalOrders |-> Some(Wide(1, 0))]),
      Object([name |-> Some("n"), email |-> Some("y"),
              totalOrders |-> Some(Wide(2, 0))]),
      [json |-> "null", data |-> <<>>] }

\* the bodies of the PUT requests
UpdateBodies ==
    { Object([name |-> Some("")]),
      Object([name |-> Some("n")]),
      Object([name |-> NULL, status |-> Some("pending")]),
      Object([email |-> Some("b")]),
      Object([status |-> Some("pending"), totalSpent |-> Some(0 - 1)]),
      [json |-> "array", data |-> <<>>] }

\* the ids of the PUT requests
RequestIds == {1}

\* the ids of the DELETE requests: a row that earlier runs left, and the
\* id an INSERT takes in a table whose last row is MaxRows
DeleteIds == {1, MaxRows + 1}

CreateRequests ==
    {[op |-> "create", id |-> 0, json |-> b.json, data |-> b.data] :
        b \in CreateBodies}

UpdateRequests ==
    {[op |-> "update", id |-> i, json |-> b.json, data |-> b.data] :
        i \in RequestIds, b \in UpdateBodies}

DeleteRequests ==
    {[op |-> "delete", id |-> i, json |-> "object", data |-> <<>>] :
        i \in DeleteIds}

\* the script is started: the table holds the rows earlier runs left
Init ==
    /\ \E ids \in SUBSET (1..MaxRows) : ids # {} /\ customers = GivenTable(ids)
    /\ pc = [t \in {MainThread} \cup Threads |->
                IF t = MainThread THEN "main" ELSE "idle"]
    /\ request = [t \in Threads |-> NoRequest]
    /\ session = [t \in Threads |-> NoSession]
    /\ response = [t \in Threads |-> NoResponse]
    /\ reads = [t \in Threads |-> <<>>]
    /\ write = [t \in Threads |-> NoWrite]

Next ==
    \/ main
    \/ \E t \in Threads : get_customers(t)
    \/ \E t \in Threads : \E req \in CreateRequests : create_customer(t, req)
    \/ \E t \in Threads : \E join_date \in Readings : create_commit(t, join_date)
    \/ \E t \in Threads : create_respond(t)
    \/ \E t \in Threads : \E req \in UpdateRequests : update_customer(t, req)
    \/ \E t \in Threads : update_commit(t)
    \/ \E t \in Threads : update_respond(t)
    \/ \E t \in Threads : \E req \in DeleteRequests : delete_customer(t, req)
    \/ \E t \in Threads : delete_commit(t)
    \/ \E t \in Threads : get_stats(t)
    \/ \E t \in Threads : stats_active(t)
    \/ \E t \in Threads : stats_revenue(t)
    \/ \E t \in Threads : stats_orders(t)
    \/ \E t \in Threads : health_check(t)

Spec == Init /\ [][Next]_vars

----------------------------------------------------------------------------------------------------------------------------------------
(* Specification SpecSeeded: the script is started on a new database file, *)
(* seeds it, and every thread serves one request                           *)

\* the script is started on a new database file: db.create_all() makes the
\* table, which is empty
InitSeeded ==
    /\ customers = {}
    /\ pc = [t \in {MainThread} \cup Threads |->
                IF t = MainThread THEN "main" ELSE "idle"]
    /\ request = [t \in Threads |-> NoRequest]
    /\ session = [t \in Threads |-> NoSession]
    /\ response = [t \in Threads |-> NoResponse]
    /\ reads = [t \in Threads |-> <<>>]
    /\ write = [t \in Threads |-> NoWrite]

SpecSeeded == InitSeeded /\ [][Next]_vars

----------------------------------------------------------------------------
(* The claims.  A request is what a thread served; what it found and what  *)
(* it wrote are read from `reads` and `write`.                             *)

Done(t) == pc[t] = "done"

\* the table as the first statement of thread t saw it
Before(t) == reads[t][1]

Ids(table) == {r.id : r \in table}

\* key k of the JSON object of thread t is supplied
Given(t, k) == request[t].json = "object" /\ k \in DOMAIN request[t].data

\* a value that is neither None nor ''
NonEmpty(v) == v # {} /\ v # {""}

\* key k of thread t is supplied and neither null nor ''
GivenNonEmpty(t, k) == Given(t, k) /\ NonEmpty(request[t].data[k])

ColumnOf(k) ==
    CASE k = "name" -> "name"
      [] k = "email" -> "email"
      [] k = "status" -> "status"
      [] k = "totalOrders" -> "total_orders"
      [] k = "totalSpent" -> "total_spent"

AllKeys == {"name", "email", "status", "totalOrders", "totalSpent"}

Negative(a) == a.hi < 0 \/ (a.hi = 0 /\ a.lo < 0)

\* C1: in every reachable store no two customers share an id and no two
\* customers share an email
UniqueIdAndEmail ==
    \A r, s \in customers : r # s => r.id # s.id /\ r.email # s.email

\* C1 (witness): two creates of the same email both found the email free;
\* one was answered 201 and the store rejected the commit of the other
ConcurrentCreatesOfOneEmailSeen ==
    \E t, u \in Threads :
        /\ t # u /\ Done(t) /\ Done(u)
        /\ request[t].op = "create" /\ request[u].op = "create"
        /\ request[t].data = request[u].data
        /\ response[t].status = 201
        /\ response[u].status = 500
        /\ response[u].body.error.message = "UNIQUE constraint failed: customer.email"

\* C2: every persisted customer has a name and an email that are neither
\* NULL nor empty
NameAndEmailNeverEmpty ==
    \A r \in customers : NonEmpty(r.name) /\ NonEmpty(r.email)

\* C3: an update or a delete of an id that no persisted customer has is
\* answered 404
UnknownIdYields404 ==
    \A t \in Threads :
        (Done(t) /\ request[t].op \in {"update", "delete"}
                 /\ request[t].id \notin Ids(Before(t)))
            => response[t].status = 404

\* C4: a create whose email is the email of a persisted customer is
\* answered 400 "Email already exists" and writes nothing
DuplicateEmailCreateConflicts ==
    \A t \in Threads :
        (Done(t) /\ request[t].op = "create" /\ Given(t, "email")
                 /\ \E r \in Before(t) : r.email = request[t].data["email"])
            => /\ response[t].status = 400
               /\ response[t].body = [error |-> "Email already exists"]
               /\ ~write[t].ran

\* C4 (amended): a create with a non-empty name whose non-empty email is the
\* email of a persisted customer is answered 400 "Email already exists" and
\* writes nothing
ValidDuplicateEmailCreateConflicts ==
    \A t \in Threads :
        (Done(t) /\ request[t].op = "create"
                 /\ GivenNonEmpty(t, "name") /\ GivenNonEmpty(t, "email")
                 /\ \E r \in Before(t) : r.email = request[t].data["email"])
            => /\ response[t].status = 400
               /\ response[t].body = [error |-> "Email already exists"]
               /\ ~write[t].ran

\* C4 (witness): a create with a name and the email of a persisted customer
\* was answered 400 "Email already exists"
ValidDuplicateEmailCreateSeen ==
    \E t \in Threads :
        /\ Done(t) /\ request[t].op = "create"
        /\ GivenNonEmpty(t, "name") /\ GivenNonEmpty(t, "email")
        /\ \E r \in Before(t) : r.email = request[t].data["email"]
        /\ response[t].status = 400
        /\ response[t].body = [error |-> "Email already exists"]

\* C5: a create whose payload has no name or no email, or has one of them
\* empty, is answered 400 "Name and email are required" and writes nothing
MissingNameOrEmailRejected ==
    \A t \in Threads :
        (Done(t) /\ request[t].op = "create"
                 /\ (~GivenNonEmpty(t, "name") \/ ~GivenNonEmpty(t, "email")))
            => /\ response[t].status = 400
               /\ response[t].body = [error |-> "Name and email are required"]
               /\ ~write[t].ran

\* C6: the commit of an update changes only supplied fields of that
\* customer: the omitted fields are left as they were, no id and no join
\* date changes, and every other customer is left as it was
PartialUpdateChangesOnlySupplied ==
    \A t \in Threads :
        (request[t].op = "update" /\ write[t].ran)
            => LET pre == write[t].pre
                   post == write[t].post
               IN  /\ {<<r.id, r.join_date>> : r \in post}
                        = {<<r.id, r.join_date>> : r \in pre}
                   /\ Cardinality(post) = Cardinality(pre)
                   /\ \A r \in pre : r.id # request[t].id => r \in post
                   /\ \A old \in pre, new \in post :
                        old.id = new.id =>
                          \A k \in AllKeys \ DOMAIN request[t].data :
                             new[ColumnOf(k)] = old[ColumnOf(k)]

\* C6 (witness): an update that omits fields was answered 200 after it
\* changed a table of two rows, which another request had changed since the
\* update read its row
PartialUpdateSeen ==
    \E t \in Threads :
        /\ Done(t) /\ request[t].op = "update"
        /\ response[t].status = 200
        /\ AllKeys \ DOMAIN request[t].data # {}
        /\ write[t].pre # write[t].post
        /\ write[t].pre # Before(t)
        /\ Cardinality(write[t].pre) >= 2

\* C7: when a create, an update or a delete is answered 500, nothing it
\* did is persisted: its commit, if it got that far, left the table as it
\* was
FailedWriteLeavesTable ==
    \A t \in Threads :
        (Done(t) /\ request[t].op \in {"create", "update", "delete"}
                 /\ response[t].status = 500)
            => write[t].post = write[t].pre

\* C8: a create answered 201 added one customer under an id no customer
\* had, a delete answered 204 removed the customer of that id, no other
\* request added or removed a customer, and a list shows the customers of
\* the table
ListedAreCreatedNotDeleted ==
    \A t \in Threads :
        LET pre == write[t].pre
            post == write[t].post
        IN  Done(t) =>
              /\ (request[t].op = "create" /\ response[t].status = 201)
                   => /\ write[t].ran
                      /\ \E r \in post : r.id \notin Ids(pre) /\ post = pre \cup {r}
              /\ (request[t].op = "delete" /\ response[t].status = 204)
                   => /\ write[t].ran
                      /\ request[t].id \in Ids(Before(t))
                      /\ post = {r \in pre : r.id # request[t].id}
              /\ ~(request[t].op = "create" /\ response[t].status = 201)
                   /\ ~(request[t].op = "delete" /\ response[t].status = 204)
                   => Ids(post) = Ids(pre)
              /\ request[t].op = "list"
                   => /\ response[t].status = 200
                      /\ Len(response[t].body) = Cardinality(Before(t))
                      /\ {<<d.id, d.name, d.email>> :
                             d \in {response[t].body[i] :
                                       i \in 1..Len(response[t].body)}}
                           = {<<r.id, r.name, r.email>> : r \in Before(t)}

RECURSIVE TotalOrders(_)
TotalOrders(table) ==
    IF table = {} THEN Small(0)
    ELSE LET r == CHOOSE r \in table : TRUE
         IN  Add(IF r.total_orders = {} THEN Small(0) ELSE Val(r.total_orders),
                 TotalOrders(table \ {r}))

RECURSIVE TotalSpent(_)
TotalSpent(table) ==
    IF table = {} THEN 0
    ELSE LET r == CHOOSE r \in table : TRUE
         IN  (IF r.total_spent = {} THEN 0 ELSE Val(r.total_spent))
                + TotalSpent(table \ {r})

\* what C9 says stats returns for a table
Aggregates(table) ==
    [totalCustomers |-> Cardinality(table),
     activeCustomers |-> Cardinality({r \in table : r.status = {"active"}}),
     totalRevenue |-> TotalSpent(table),
     avgOrderValue |-> IF Positive(TotalOrders(table))
                         THEN [num |-> TotalSpent(table), den |-> TotalOrders(table)]
                         ELSE [num |-> 0, den |-> Small(1)]]

\* C9: the numbers a stats request returns are the count, the active count,
\* the revenue and the average of one content of the store: a table the
\* request read
StatsAreTheAggregates ==
    \A t \in Threads :
        (Done(t) /\ request[t].op = "stats" /\ response[t].status = 200)
            => \E i \in 1..Len(reads[t]) :
                  response[t].body = Aggregates(reads[t][i])

\* C10: no persisted customer has a negative totalOrders or totalSpent
AmountsNeverNegative ==
    \A r \in customers :
        /\ r.total_orders # {} => ~Negative(Val(r.total_orders))
        /\ r.total_spent # {} => Val(r.total_spent) >= 0
====
